---- MODULE Spec2Model ----
(***************************************************************************)
(* A model of the memory-safety analyzer: the abstract domain              *)
(* (Domain.cpp), the points-to analysis (NullPointerAnalysis.cpp and       *)
(* PointerAnalysis.cpp) and the chaotic-iteration dataflow engine          *)
(* (ChaoticIteration.cpp, Transfer.cpp).                                   *)
(***************************************************************************)
EXTENDS Integers, Sequences, FiniteSets, TLC

VARIABLES
  jx, jy, jz,      \* operands handed to Domain::join
  jres,            \* results of the joins computed from jx, jy, jz
  prog,            \* index of the analysed function in Programs
  paImpl,          \* which PointerAnalysis.cpp translation unit is linked
  PointsTo,        \* PointerAnalysis::PointsTo
  NullStates,      \* PointerAnalysis::NullStates
  NullChanged,     \* PointerAnalysis::NullChanged
  NumOfOldFacts,   \* local of the PointerAnalysis constructor
  ptIdx,           \* position of the constructor's instruction iterator
  ptPhase,         \* "pass" while iterating, "done" after the loop's break
  ptPasses,        \* number of completed passes over the function
  NullDerefs,      \* instructions the constructor has warned about on errs()
  InMap, OutMap,   \* DoubleFreeAnalysis::InMap / OutMap
  WorkSet,         \* the SetVector of doAnalysis
  pops,            \* number of pop_back_val calls so far
  inserts,         \* number of WorkSet.insert calls made by flowOut so far
  lastInst,        \* instruction handled by the latest loop iteration
  lastChanged,     \* flowOut's `changed` in the latest loop iteration
  Unhandled,       \* instructions transfer has printed as unhandled, in order
  analysis,        \* the pass that runs: its PASS_NAME
  chkIdx,          \* position of the iterator of run's checking loop
  ErrorInsts,      \* the flagged instructions, in insertion order
  Output           \* the instructions run has printed, in order

vars == <<jx, jy, jz, jres, prog, paImpl, PointsTo, NullStates, NullChanged,
          NumOfOldFacts, ptIdx, ptPhase, ptPasses, NullDerefs, InMap, OutMap,
          WorkSet,
          pops, inserts, lastInst, lastChanged, Unhandled, analysis, chkIdx,
          ErrorInsts, Output>>

joinVars == <<jx, jy, jz, jres>>
ptVars == <<paImpl, PointsTo, NullStates, NullChanged, NumOfOldFacts, ptIdx,
            ptPhase, ptPasses, NullDerefs>>
dfVars == <<InMap, OutMap, WorkSet, pops, inserts, lastInst, lastChanged,
            Unhandled>>
runVars == <<analysis, chkIdx, ErrorInsts, Output>>

-----------------------------------------------------------------------------
(* Domain.h: the two enums and the abstract value.                         *)

Uninit == "Uninit"
Live == "Live"
Freed == "Freed"
MaybeFreed == "MaybeFreed"
Element == {Uninit, Live, Freed, MaybeFreed}

Unknown == "Unknown"
Null == "Null"
NotNull == "NotNull"
MaybeNull == "MaybeNull"
NullState == {Unknown, Null, NotNull, MaybeNull}

\* Domain(Element V, NullState N)
Dom(V, N) == [Value |-> V, Nstate |-> N]
\* Domain(Element V): the nullness is Unknown
DomV(V) == Dom(V, Unknown)
\* Domain(): the default value
Bottom == Dom(Uninit, Unknown)

DomainValues == [Value : Element, Nstate : NullState]

\* The nullness join written out in the MaybeFreed branch and in the final
\* branch of Domain::join.
JoinNTop(n1, n2) ==
  IF n1 = Unknown THEN n2
  ELSE IF n2 = Unknown THEN n1
  ELSE IF n1 = MaybeNull \/ n2 = MaybeNull THEN MaybeNull
  ELSE IF n1 = n2 THEN n1
  ELSE MaybeNull

\* The nullness join written out in the Live/Live and Freed/Freed branches.
JoinNSame(n1, n2) ==
  IF n1 = Unknown THEN n2
  ELSE IF n2 = Unknown THEN n1
  ELSE IF n1 = n2 THEN n1
  ELSE MaybeNull

\* A variant of the first test of Domain::join that keeps the left operand
\* when it is Uninit.
JoinUninitLeftKeepsLeft(E1, E2) == Dom(E1.Value, E1.Nstate)

\* Domain::join, first branch: E1 is Uninit, the result is a copy of E2.
JoinUninitLeft(E1, E2) == Dom(E2.Value, E2.Nstate)

\* Domain::join, last branch: different allocation statuses.
JoinMixed(E1, E2) == Dom(MaybeFreed, JoinNTop(E1.Nstate, E2.Nstate))

\* Domain::join
Join(E1, E2) ==
  IF E1.Value = Uninit THEN JoinUninitLeft(E1, E2)
  ELSE IF E2.Value = Uninit THEN Dom(E1.Value, E1.Nstate)
  ELSE IF E1.Value = MaybeFreed \/ E2.Value = MaybeFreed
       THEN Dom(MaybeFreed, JoinNTop(E1.Nstate, E2.Nstate))
  ELSE IF E1.Value = Live /\ E2.Value = Live
       THEN Dom(Live, JoinNSame(E1.Nstate, E2.Nstate))
  ELSE IF E1.Value = Freed /\ E2.Value = Freed
       THEN Dom(Freed, JoinNSame(E1.Nstate, E2.Nstate))
  ELSE JoinMixed(E1, E2)

\* Domain::equal
DomEqual(E1, E2) == E1.Value = E2.Value /\ E1.Nstate = E2.Nstate

-----------------------------------------------------------------------------
(* The join is exercised on every pair and triple of abstract values.      *)

NoJoin == [done |-> FALSE]

InitJoinInputs ==
  /\ jx \in DomainValues
  /\ jy \in DomainValues
  /\ jz \in DomainValues
  /\ jres = NoJoin

\* The calls join(a,b), join(b,a), join(join(a,b),c), join(a,join(b,c)) and
\* join(a, bottom) on the chosen operands.
ApplyJoin ==
  /\ ~jres.done
  /\ jres' = [done |-> TRUE,
              xy |-> Join(jx, jy),
              yx |-> Join(jy, jx),
              xy_z |-> Join(Join(jx, jy), jz),
              x_yz |-> Join(jx, Join(jy, jz)),
              xbot |-> Join(jx, Bottom)]
  /\ UNCHANGED <<jx, jy, jz>>

-----------------------------------------------------------------------------
(* The IR handed to the analyses.  An instruction carries its opcode, the   *)
(* name of its result (variable(Inst)), the type of the result, its         *)
(* operands, the callee of a call and the predicate of a compare.           *)
(* Operands are SSA names or the constants "cnull" (the null pointer),      *)
(* "c0" and "c1" (integer constants).                                       *)

Ins(o, r, t, xs, f, pr) ==
  [op |-> o, res |-> r, ty |-> t, ops |-> xs, callee |-> f, pred |-> pr]

AllocaI(r) == Ins("alloca", r, "ptr", <<>>, "", "")
\* store v, p: getValueOperand() is ops[1], getPointerOperand() is ops[2]
StoreI(v, p) == Ins("store", "", "void", <<v, p>>, "", "")
\* r = load t, p
LoadI(r, t, p) == Ins("load", r, t, <<p>>, "", "")
CallI(r, t, f, xs) == Ins("call", r, t, xs, f, "")
CastI(r, t, v) == Ins("cast", r, t, <<v>>, "", "")
\* r = getelementptr p, ...
GepI(r, p) == Ins("gep", r, "ptr", <<p>>, "", "")
PhiI(r, t, xs) == Ins("phi", r, t, xs, "", "")
CmpI(r, pr, a, b) == Ins("cmp", r, "int", <<a, b>>, "", pr)
BrI == Ins("br", "", "void", <<>>, "", "")
\* br c, ...: the first successor of the block is taken when c is true
CondBrI(c) == Ins("br", "", "void", <<c>>, "", "")
RetI == Ins("ret", "", "void", <<>>, "", "")

Arg(n, t) == [n |-> n, ty |-> t]

\* A function: its instructions in inst_begin..inst_end order, the basic
\* block of each instruction, the successor blocks of each block (in
\* succ_begin order) and its arguments.
Fun(is, bs, ss, as) == [ins |-> is, blk |-> bs, bsucc |-> ss, args |-> as]

\* r = malloc(..); free(r); free(r)
ProgDoubleFree ==
  Fun(<<CallI("r", "ptr", "malloc", <<"c1">>),
        CallI("", "void", "free", <<"r">>),
        CallI("", "void", "free", <<"r">>),
        RetI>>,
      <<1, 1, 1, 1>>, <<<<>>>>, <<>>)

\* test02 as the front end lowers it: int *p = malloc(..); free(p); p = NULL
ProgFreeNullify ==
  Fun(<<AllocaI("s"),
        CallI("r", "ptr", "malloc", <<"c1">>),
        StoreI("r", "s"),
        LoadI("x", "ptr", "s"),
        CallI("", "void", "free", <<"x">>),
        StoreI("cnull", "s"),
        RetI>>,
      <<1, 1, 1, 1, 1, 1, 1>>, <<<<>>>>, <<>>)

\* A loop that loads through a pointer argument and tests the loaded value.
ProgLoadLoop ==
  Fun(<<BrI,
        LoadI("x", "ptr", "a"),
        CmpI("c", "eq", "x", "cnull"),
        BrI,
        RetI>>,
      <<1, 2, 2, 2, 3>>, <<<<2>>, <<2, 3>>, <<>>>>, <<Arg("a", "ptr")>>)

\* test07 after promotion to registers, up to the first free: the freed
\* pointer is a phi of two allocations.
ProgPhiFree ==
  Fun(<<CallI("r", "ptr", "malloc", <<"c1">>),
        CallI("q", "ptr", "malloc", <<"c1">>),
        CmpI("c", "other", "n", "c1"),
        BrI,
        BrI,
        PhiI("p", "ptr", <<"r", "q">>),
        CallI("", "void", "free", <<"p">>),
        CallI("", "void", "free", <<"p">>),
        RetI>>,
      <<1, 1, 1, 1, 2, 3, 3, 3, 3>>, <<<<2, 3>>, <<3>>, <<>>>>,
      <<Arg("n", "int")>>)

\* Integer stores through a cast and an offset of a pointer argument.
ProgStoreInt ==
  Fun(<<CastI("q", "ptr", "a"),
        GepI("g", "q"),
        StoreI("c0", "g"),
        LoadI("v", "int", "g"),
        CmpI("c", "ne", "v", "c0"),
        RetI>>,
      <<1, 1, 1, 1, 1, 1>>, <<<<>>>>, <<Arg("a", "ptr")>>)

\* A loop that frees a phi of an allocation and of a loaded pointer, and
\* reads its exit condition from the input.
ProgLoopPhi ==
  Fun(<<AllocaI("s"),
        CallI("r", "ptr", "malloc", <<"c1">>),
        StoreI("r", "s"),
        BrI,
        PhiI("p", "ptr", <<"r", "x">>),
        CallI("", "void", "free", <<"p">>),
        LoadI("x", "ptr", "s"),
        CallI("c", "int", "getchar", <<>>),
        BrI,
        RetI>>,
      <<1, 1, 1, 1, 2, 2, 2, 2, 2, 3>>, <<<<2>>, <<2, 3>>, <<>>>>, <<>>)

\* An integer store through an offset of a pointer argument on one branch,
\* a pointer load from the argument after the branches meet.
ProgStoreAlias ==
  Fun(<<GepI("g", "a"),
        AllocaI("s"),
        LoadI("v", "int", "s"),
        BrI,
        StoreI("v", "g"),
        BrI,
        LoadI("x", "ptr", "a"),
        StoreI("a", "a"),
        RetI>>,
      <<1, 1, 1, 1, 2, 2, 3, 3, 3>>, <<<<2, 3>>, <<3>>, <<>>>>,
      <<Arg("a", "ptr")>>)

\* A loop that reads the input and loads an integer through a pointer
\* argument; the loop can be skipped.
ProgReadLoop ==
  Fun(<<StoreI("a", "a"),
        BrI,
        CallI("c", "int", "getchar", <<>>),
        LoadI("v", "int", "a"),
        BrI,
        RetI>>,
      <<1, 1, 2, 2, 2, 3>>, <<<<2, 3>>, <<3, 2>>, <<>>>>,
      <<Arg("a", "ptr")>>)

\* void f(void) {}
ProgEmpty == Fun(<<RetI>>, <<1>>, <<<<>>>>, <<>>)

\* r = malloc(..); free(r); return
ProgCleanFree ==
  Fun(<<CallI("r", "ptr", "malloc", <<"c1">>),
        CallI("", "void", "free", <<"r">>),
        RetI>>,
      <<1, 1, 1>>, <<<<>>>>, <<>>)

\* test07 after promotion to registers: p is chosen from two allocations
\* by a branch and freed, chosen again by a second branch and freed again.
ProgBranchFree ==
  Fun(<<CallI("r", "ptr", "malloc", <<"c1">>),
        CallI("q", "ptr", "malloc", <<"c1">>),
        CmpI("c", "other", "n", "c1"),
        BrI,
        BrI,
        PhiI("p", "ptr", <<"r", "q">>),
        CallI("", "void", "free", <<"p">>),
        CmpI("d", "other", "n", "c1"),
        BrI,
        BrI,
        PhiI("p2", "ptr", <<"r", "q">>),
        CallI("", "void", "free", <<"p2">>),
        RetI>>,
      <<1, 1, 1, 1, 2, 3, 3, 3, 3, 4, 5, 5, 5>>,
      <<<<2, 3>>, <<3>>, <<4, 5>>, <<5>>, <<>>>>,
      <<Arg("n", "int")>>)

\* test04 after promotion to registers: r = malloc(..); free(r); foo(r)
ProgUafCall ==
  Fun(<<CallI("r", "ptr", "malloc", <<"c1">>),
        CallI("", "void", "free", <<"r">>),
        CallI("", "void", "foo", <<"r">>),
        RetI>>,
      <<1, 1, 1, 1>>, <<<<>>>>, <<>>)

\* test04 as the front end lowers it: the pointer lives in a stack slot.
ProgUafCallSlot ==
  Fun(<<AllocaI("s"),
        CallI("r", "ptr", "malloc", <<"c1">>),
        StoreI("r", "s"),
        LoadI("x", "ptr", "s"),
        CallI("", "void", "free", <<"x">>),
        LoadI("y", "ptr", "s"),
        CallI("", "void", "foo", <<"y">>),
        RetI>>,
      <<1, 1, 1, 1, 1, 1, 1, 1>>, <<<<>>>>, <<>>)

\* p = malloc(..); if (p) { *p = 5; } free(p)
ProgGuarded ==
  Fun(<<CallI("r", "ptr", "malloc", <<"c1">>),
        CmpI("c", "ne", "r", "cnull"),
        CondBrI("c"),
        StoreI("c1", "r"),
        BrI,
        CallI("", "void", "free", <<"r">>),
        RetI>>,
      <<1, 1, 1, 2, 2, 3, 3>>, <<<<2, 3>>, <<3>>, <<>>>>, <<>>)

\* *slot = NULL; x = *slot; *x = 1
ProgNullStore ==
  Fun(<<AllocaI("s"),
        StoreI("cnull", "s"),
        LoadI("x", "ptr", "s"),
        StoreI("c1", "x"),
        RetI>>,
      <<1, 1, 1, 1, 1>>, <<<<>>>>, <<>>)

\* *slot = NULL; *slot = malloc(..); x = *slot; if (x) { *x = 1; }
ProgGuardedMaybeNull ==
  Fun(<<AllocaI("s"),
        CallI("r", "ptr", "malloc", <<"c1">>),
        StoreI("cnull", "s"),
        StoreI("r", "s"),
        LoadI("x", "ptr", "s"),
        CmpI("c", "ne", "x", "cnull"),
        CondBrI("c"),
        StoreI("c1", "x"),
        BrI,
        RetI>>,
      <<1, 1, 1, 1, 1, 1, 1, 2, 2, 3>>, <<<<2, 3>>, <<3>>, <<>>>>, <<>>)

\* An input value is stored through a pointer argument, which is then
\* freed twice.
ProgStoreInput ==
  Fun(<<CallI("c", "int", "getchar", <<>>),
        StoreI("c", "a"),
        CallI("", "void", "free", <<"a">>),
        CallI("", "void", "free", <<"a">>),
        RetI>>,
      <<1, 1, 1, 1, 1>>, <<<<>>>>, <<Arg("a", "ptr")>>)

\* An input value is stored through a pointer argument on one branch; the
\* argument is freed after the branches meet.
ProgBranchStore ==
  Fun(<<CallI("c", "int", "getchar", <<>>),
        BrI,
        StoreI("c", "a"),
        BrI,
        CallI("", "void", "free", <<"a">>),
        RetI>>,
      <<1, 1, 2, 2, 3, 3>>, <<<<2, 3>>, <<3>>, <<>>>>, <<Arg("a", "ptr")>>)

\* A pointer argument is stored into a stack slot, loaded back and freed.
ProgStoreArg ==
  Fun(<<AllocaI("s"),
        StoreI("a", "s"),
        LoadI("x", "ptr", "s"),
        CallI("", "void", "free", <<"x">>),
        RetI>>,
      <<1, 1, 1, 1, 1>>, <<<<>>>>, <<Arg("a", "ptr")>>)

Programs ==
  <<ProgDoubleFree, ProgFreeNullify, ProgLoadLoop, ProgPhiFree, ProgStoreInt,
    ProgLoopPhi, ProgStoreAlias, ProgReadLoop, ProgEmpty, ProgCleanFree,
    ProgBranchFree, ProgUafCall, ProgGuarded, ProgNullStore, ProgStoreInput,
    ProgUafCallSlot, ProgGuardedMaybeNull, ProgBranchStore,
    ProgStoreArg>>

\* The function under analysis.
F == Programs[prog]

NInst(P) == Len(P.ins)
Insts(P) == 1..NInst(P)

IsConst(v) == v \in {"cnull", "c0", "c1"}

\* The names a function mentions: results, arguments and named operands.
NamesOf(P) ==
  ({P.ins[i].res : i \in Insts(P)} \ {""})
    \cup {P.args[k].n : k \in 1..Len(P.args)}
    \cup {v \in UNION {{P.ins[i].ops[k] : k \in 1..Len(P.ins[i].ops)} :
                        i \in Insts(P)} : ~IsConst(v)}

AllNames == UNION {NamesOf(Programs[k]) : k \in 1..Len(Programs)}

\* Value::getType() of an operand
TypeOf(P, v) ==
  IF v = "cnull" THEN "ptr"
  ELSE IF v \in {"c0", "c1"} THEN "int"
  ELSE IF \E k \in 1..Len(P.args) : P.args[k].n = v
       THEN (CHOOSE a \in {P.args[k] : k \in 1..Len(P.args)} : a.n = v).ty
  ELSE IF \E i \in Insts(P) : P.ins[i].res = v
       THEN P.ins[CHOOSE i \in Insts(P) : P.ins[i].res = v].ty
  ELSE "int"

-----------------------------------------------------------------------------
(* The points-to analysis.  PointsToInfo and NullStates are std::maps whose *)
(* operator[] creates an empty set / Unknown on first use; a missing entry  *)
(* and an empty (Unknown) entry are read alike by computeNullState, alias   *)
(* and countFacts, so both maps are total functions here.                   *)

\* The two translation units that define PointerAnalysis.
NullImpl == "NullPointerAnalysis.cpp"
PlainImpl == "PointerAnalysis.cpp"
PAImpls == {NullImpl, PlainImpl}

\* An address that is the value's own name.
AddrIsName(n) == n

\* address(V): the abstract address named after a value
Addr(n) == "@" \o n

NullSym == "NULL"

Keys == AllNames \cup {Addr(n) : n \in AllNames} \cup {NullSym}

\* PointsTo[k] for a key that may be a constant's name
PTGet(pt, k) == IF k \in DOMAIN pt THEN pt[k] ELSE {}

\* PointerAnalysis::computeNullState
computeNullState(var, pt) ==
  LET pts == PTGet(pt, var)
      hasNull == NullSym \in pts
      hasAddr == \E t \in pts : t # NullSym
  IN IF hasNull /\ ~hasAddr THEN Null
     ELSE IF ~hasNull /\ hasAddr THEN NotNull
     ELSE IF hasNull /\ hasAddr THEN MaybeNull
     ELSE Unknown

\* PointerAnalysis::countFacts
RECURSIVE SumSizes(_, _)
SumSizes(pt, ks) ==
  IF ks = {} THEN 0
  ELSE LET k == CHOOSE x \in ks : TRUE
       IN Cardinality(pt[k]) + SumSizes(pt, ks \ {k})

countFacts(pt) == SumSizes(pt, DOMAIN pt)

\* The state the transfer function works on.
PTState(pt, ns, nc) == [pt |-> pt, ns |-> ns, nc |-> nc]

\* `if (NullStates[v] != NewState) { NullStates[v] = NewState; NullChanged =
\* true; }` for every v of vs, with NewState computed from pt; only the
\* NullPointerAnalysis.cpp build keeps nullness.
UpdateNull(impl, st, pt, vs) ==
  IF impl = PlainImpl THEN PTState(pt, st.ns, st.nc)
  ELSE PTState(pt,
               [v \in DOMAIN st.ns |->
                  IF v \in vs THEN computeNullState(v, pt) ELSE st.ns[v]],
               st.nc \/ \E v \in vs : st.ns[v] # computeNullState(v, pt))

\* A store rule that overwrites the stored-to cell instead of joining into it.
StoreTargetOverwrite(S, R) == R

\* The store rule's new content of one cell: set_union(S, R).
StoreTarget(S, R) == S \cup R

\* The store rule.
TransferStore(impl, P, I, st) ==
  LET Pointer == I.ops[2]
      ValueOp == I.ops[1]
  IN IF TypeOf(P, ValueOp) # "ptr" THEN st
     ELSE LET R == IF ValueOp = "cnull" THEN {NullSym} ELSE PTGet(st.pt, ValueOp)
              L == PTGet(st.pt, Pointer)
              pt2 == [k \in DOMAIN st.pt |->
                        IF k \in L THEN StoreTarget(st.pt[k], R) ELSE st.pt[k]]
              touched == {k \in L : pt2[k] # st.pt[k]}
          IN UpdateNull(impl, st, pt2, touched)

\* The load rule.  NullPointerAnalysis.cpp refreshes the nullness of the
\* result from the set it had before this visit; PointerAnalysis.cpp skips
\* loads of non-pointer values.
TransferLoad(impl, P, I, st) ==
  IF impl = PlainImpl /\ I.ty # "ptr" THEN st
  ELSE LET st1 == UpdateNull(impl, st, st.pt, {I.res})
           R == PTGet(st.pt, I.ops[1])
           Result == UNION {PTGet(st.pt, t) : t \in R}
       IN PTState([st.pt EXCEPT ![I.res] = Result], st1.ns, st1.nc)

\* The phi rule.
TransferPhi(impl, P, I, st) ==
  IF I.ty # "ptr" THEN st
  ELSE LET inc == {I.ops[k] : k \in 1..Len(I.ops)}
           Result == UNION {PTGet(st.pt, v) : v \in {w \in inc : TypeOf(P, w) = "ptr"}}
       IN UpdateNull(impl, st, [st.pt EXCEPT ![I.res] = Result], {I.res})

\* PointerAnalysis::transfer
PTTransfer(impl, P, I, st) ==
  CASE I.op = "alloca" ->
         UpdateNull(impl, st,
                    [st.pt EXCEPT ![I.res] = @ \cup {Addr(I.res)}], {I.res})
    [] I.op = "store" -> TransferStore(impl, P, I, st)
    [] I.op = "load" -> TransferLoad(impl, P, I, st)
    [] I.op = "call" ->
         IF I.ty = "ptr"
         THEN UpdateNull(impl, st,
                         [st.pt EXCEPT ![I.res] = @ \cup {Addr(I.res)}], {I.res})
         ELSE st
    [] I.op = "cast" ->
         IF I.ty = "ptr" /\ TypeOf(P, I.ops[1]) = "ptr"
         THEN UpdateNull(impl, st,
                         [st.pt EXCEPT ![I.res] = PTGet(st.pt, I.ops[1])], {I.res})
         ELSE st
    [] I.op = "gep" ->
         IF I.ty = "ptr"
         THEN UpdateNull(impl, st,
                         [st.pt EXCEPT ![I.res] = PTGet(st.pt, I.ops[1])], {I.res})
         ELSE st
    [] I.op = "phi" -> TransferPhi(impl, P, I, st)
    [] OTHER -> st

\* The constructor's seeding of the pointer arguments.
PTSeed(P) ==
  [k \in Keys |->
     IF \E j \in 1..Len(P.args) : P.args[j].n = k /\ P.args[j].ty = "ptr"
     THEN {Addr(k)} ELSE {}]

\* A constructor that keeps the NullStates the transfer function left.
FinalNullStatesKept(impl, pt, ns) == ns

\* The constructor's loop after the fixpoint, which recomputes NullStates
\* for every entry of PointsTo (NullPointerAnalysis.cpp only).
FinalNullStates(impl, pt, ns) ==
  IF impl = PlainImpl THEN ns
  ELSE [v \in DOMAIN ns |-> computeNullState(v, pt)]

\* A loop that stops after its first pass.
LoopExitsAtOnce(impl, old, new, nc) == TRUE

\* The test that ends the constructor's while (true).
LoopExits(impl, old, new, nc) ==
  ~(old < new) /\ ~(impl = NullImpl /\ nc)

\* PointerAnalysis.cpp warns inside transfer, about a store or a pointer
\* load through a pointer whose points-to set holds "NULL".
WarnsInTransfer(impl, I, pt) ==
  /\ impl = PlainImpl
  /\ \/ I.op = "store" /\ NullSym \in PTGet(pt, I.ops[2])
     \/ I.op = "load" /\ I.ty = "ptr" /\ NullSym \in PTGet(pt, I.ops[1])

\* A post-check that warns about MaybeNull pointers only.
mayBeNullNotDefinite(n) == n = MaybeNull

\* The post-check's test of the pointer operand's NullStates entry.
mayBeNull(n) == n \in {Null, MaybeNull}

\* NullPointerAnalysis.cpp warns in a post-check of the constructor, about
\* every store, load and getelementptr whose pointer operand is Null or
\* MaybeNull in the final NullStates.
PostCheck(impl, P, ns) ==
  IF impl = PlainImpl THEN {}
  ELSE {i \in Insts(P) :
          /\ P.ins[i].op \in {"store", "load", "gep"}
          /\ LET Pointer == IF P.ins[i].op = "store" THEN P.ins[i].ops[2]
                            ELSE P.ins[i].ops[1]
             IN Pointer \in DOMAIN ns /\ mayBeNull(ns[Pointer])}

InitPT(impl, P) ==
  /\ paImpl = impl
  /\ NullDerefs = {}
  /\ PointsTo = PTSeed(P)
  /\ NullStates = [k \in Keys |-> Unknown]
  /\ NullChanged = FALSE
  /\ NumOfOldFacts = 0
  /\ ptIdx = 1
  /\ ptPhase = "pass"
  /\ ptPasses = 0

\* One call transfer(Inst, PointsTo) of the constructor's for loop.
PTStep ==
  /\ ptPhase = "pass"
  /\ ptIdx <= NInst(F)
  /\ LET st == PTTransfer(paImpl, F, F.ins[ptIdx],
                          PTState(PointsTo, NullStates, NullChanged))
     IN /\ PointsTo' = st.pt
        /\ NullStates' = st.ns
        /\ NullChanged' = st.nc
  /\ NullDerefs' = IF WarnsInTransfer(paImpl, F.ins[ptIdx], PointsTo)
                   THEN NullDerefs \cup {ptIdx} ELSE NullDerefs
  /\ ptIdx' = ptIdx + 1
  /\ UNCHANGED <<paImpl, NumOfOldFacts, ptPhase, ptPasses>>

\* The end of one pass: count the facts and go round again ...
PTNextPass ==
  /\ ptPhase = "pass"
  /\ ptIdx = NInst(F) + 1
  /\ ~LoopExits(paImpl, NumOfOldFacts, countFacts(PointsTo), NullChanged)
  /\ NumOfOldFacts' = IF NumOfOldFacts < countFacts(PointsTo)
                      THEN countFacts(PointsTo) ELSE NumOfOldFacts
  /\ NullChanged' = FALSE
  /\ ptIdx' = 1
  /\ ptPasses' = ptPasses + 1
  /\ UNCHANGED <<paImpl, PointsTo, NullStates, ptPhase, NullDerefs>>

\* ... or break and finish the constructor.
PTFinish ==
  /\ ptPhase = "pass"
  /\ ptIdx = NInst(F) + 1
  /\ LoopExits(paImpl, NumOfOldFacts, countFacts(PointsTo), NullChanged)
  /\ NullStates' = FinalNullStates(paImpl, PointsTo, NullStates)
  /\ NullDerefs' = NullDerefs
                     \cup PostCheck(paImpl, F, FinalNullStates(paImpl, PointsTo, NullStates))
  /\ ptPhase' = "done"
  /\ ptPasses' = ptPasses + 1
  /\ UNCHANGED <<paImpl, PointsTo, NullChanged, NumOfOldFacts, ptIdx>>

\* The whole constructor as one function of the analysed function: the
\* passes are repeated until the loop's break.
RECURSIVE PTPass(_, _, _, _)
PTPass(impl, P, st, i) ==
  IF i > NInst(P) THEN st
  ELSE PTPass(impl, P, PTTransfer(impl, P, P.ins[i], st), i + 1)

RECURSIVE PTLoop(_, _, _, _)
PTLoop(impl, P, st, old) ==
  LET st1 == PTPass(impl, P, PTState(st.pt, st.ns, FALSE), 1)
      new == countFacts(st1.pt)
  IN IF LoopExits(impl, old, new, st1.nc)
     THEN PTState(st1.pt, FinalNullStates(impl, st1.pt, st1.ns), st1.nc)
     ELSE PTLoop(impl, P, st1, IF old < new THEN new ELSE old)

\* The warnings of the whole constructor: those of every pass and those
\* of the post-check.
RECURSIVE PassWarnings(_, _, _, _, _)
PassWarnings(impl, P, st, i, acc) ==
  IF i > NInst(P) THEN acc
  ELSE PassWarnings(impl, P, PTTransfer(impl, P, P.ins[i], st), i + 1,
                    IF WarnsInTransfer(impl, P.ins[i], st.pt)
                    THEN acc \cup {i} ELSE acc)

RECURSIVE LoopWarnings(_, _, _, _, _)
LoopWarnings(impl, P, st, old, acc) ==
  LET st0 == PTState(st.pt, st.ns, FALSE)
      st1 == PTPass(impl, P, st0, 1)
      acc1 == PassWarnings(impl, P, st0, 1, acc)
      new == countFacts(st1.pt)
  IN IF LoopExits(impl, old, new, st1.nc)
     THEN acc1 \cup PostCheck(impl, P, FinalNullStates(impl, st1.pt, st1.ns))
     ELSE LoopWarnings(impl, P, st1, IF old < new THEN new ELSE old, acc1)

\* The PointerAnalysis object each function's dataflow analysis is given.
PAResult ==
  [impl \in PAImpls, k \in 1..Len(Programs) |->
     PTLoop(impl, Programs[k],
            PTState(PTSeed(Programs[k]), [v \in Keys |-> Unknown], FALSE), 0)]

\* An alias test that asks for two non-empty sets only.
aliasNonEmpty(pt, Ptr1, Ptr2) == PTGet(pt, Ptr1) # {} /\ PTGet(pt, Ptr2) # {}

\* PointerAnalysis::alias
alias(pt, Ptr1, Ptr2) == PTGet(pt, Ptr1) \cap PTGet(pt, Ptr2) # {}

-----------------------------------------------------------------------------
(* The dataflow engine.  A Memory is a map from SSA names to Domain values; *)
(* which keys are present matters to flowIn, to the load rule and to equal. *)

EmptyMem == [k \in {} |-> Bottom]

\* getOrExtract(Mem, Val): the value of Val in Mem, the default value for a
\* missing key.
getOrExtract(Mem, v) == IF v \in DOMAIN Mem THEN Mem[v] ELSE Bottom

\* extractFromValue(Val): the value of a name no memory holds.
extractFromValue(v) == Bottom

\* Transfer.cpp names the second, third and fourth enumerator of
\* Domain::Element NonZero, Zero and MaybeZero.
NonZero == Live
Zero == Freed
MaybeZero == MaybeFreed

\* new Domain(kv.second->Value) for every entry of a memory
Strip(Mem) == [k \in DOMAIN Mem |-> DomV(Mem[k].Value)]

Range(sq) == {sq[k] : k \in 1..Len(sq)}

IsFirstInBlock(P, i) == i = 1 \/ P.blk[i - 1] # P.blk[i]
IsLastInBlock(P, i) == i = NInst(P) \/ P.blk[i + 1] # P.blk[i]
FirstOf(P, b) == CHOOSE i \in Insts(P) : P.blk[i] = b /\ IsFirstInBlock(P, i)
LastOf(P, b) == CHOOSE i \in Insts(P) : P.blk[i] = b /\ IsLastInBlock(P, i)

\* The blocks in increasing order that satisfy a test.
RECURSIVE BlocksWhere(_, _, _)
BlocksWhere(P, b, into) ==
  IF b > Len(P.bsucc) THEN <<>>
  ELSE (IF into \in Range(P.bsucc[b]) THEN <<b>> ELSE <<>>)
         \o BlocksWhere(P, b + 1, into)

\* getPredecessors: the previous instruction of the block, or the last
\* instruction of every predecessor block.
getPredecessors(P, i) ==
  IF ~IsFirstInBlock(P, i) THEN <<i - 1>>
  ELSE LET bs == BlocksWhere(P, 1, P.blk[i])
       IN [k \in 1..Len(bs) |-> LastOf(P, bs[k])]

\* getSuccessors: the next instruction of the block, or the first
\* instruction of every successor block.
getSuccessors(P, i) ==
  IF ~IsLastInBlock(P, i) THEN <<i + 1>>
  ELSE LET bs == P.bsucc[P.blk[i]]
       IN [k \in 1..Len(bs) |-> FirstOf(P, bs[k])]

\* A join of memories that keeps the first memory's value of a shared key.
MemJoinKeepsFirst(Mem1, Mem2) ==
  [k \in DOMAIN Mem1 \cup DOMAIN Mem2 |->
     IF k \in DOMAIN Mem1 THEN DomV(Mem1[k].Value) ELSE DomV(Mem2[k].Value)]

\* join(Memory*, Memory*)
MemJoin(Mem1, Mem2) ==
  [k \in DOMAIN Mem1 \cup DOMAIN Mem2 |->
     IF k \notin DOMAIN Mem2 THEN DomV(Mem1[k].Value)
     ELSE IF k \notin DOMAIN Mem1 THEN DomV(Mem2[k].Value)
     ELSE Join(DomV(Mem1[k].Value), Mem2[k])]

\* The loop of flowIn over the predecessors, from the k-th on.
RECURSIVE FlowInFrom(_, _, _, _)
FlowInFrom(out, preds, k, InMem) ==
  IF k > Len(preds) THEN InMem
  ELSE LET PredOut == out[preds[k]]
       IN FlowInFrom(out, preds, k + 1,
                     IF DOMAIN InMem = {} THEN Strip(PredOut)
                     ELSE Strip(MemJoin(InMem, PredOut)))

\* DoubleFreeAnalysis::flowIn
flowIn(P, out, i) == FlowInFrom(out, getPredecessors(P, i), 1, EmptyMem)

\* A seeding of the arguments that gives them a nullness as well.
SeedArgsNotNull(P, i, In) ==
  IF getPredecessors(P, i) # <<>> THEN In
  ELSE LET as == {P.args[k].n : k \in 1..Len(P.args)}
       IN [k \in DOMAIN In \cup as |->
             IF k \in as THEN Dom(Live, NotNull) ELSE In[k]]

\* doAnalysis: the arguments are Live in the in-memory of an entry
\* instruction.
SeedArgs(P, i, In) ==
  IF getPredecessors(P, i) # <<>> THEN In
  ELSE LET as == {P.args[k].n : k \in 1..Len(P.args)}
       IN [k \in DOMAIN In \cup as |-> IF k \in as THEN DomV(Live) ELSE In[k]]

\* An equality of memories that tells a missing key from an Uninit entry.
MemEqualSameKeys(Mem1, Mem2) == Mem1 = Mem2

\* equal(Memory*, Memory*)
MemEqual(Mem1, Mem2) ==
  /\ \A k \in DOMAIN Mem1 :
       IF k \notin DOMAIN Mem2 THEN Mem1[k].Value = Uninit
       ELSE DomEqual(Mem1[k], Mem2[k])
  /\ \A k \in DOMAIN Mem2 : k \notin DOMAIN Mem1 => Mem2[k].Value = Uninit

\* isInput
isInput(I) == I.op = "call" /\ I.callee \in {"getchar", "fgetc"}

\* PHINode::hasConstantValue: the one incoming value other than the phi
\* itself, "" if there are several.
hasConstantValue(I) ==
  LET vs == Range(I.ops) \ {I.res}
  IN IF Cardinality(vs) = 1 THEN CHOOSE v \in vs : TRUE ELSE ""

RECURSIVE JoinIncoming(_, _, _, _)
JoinIncoming(I, In, k, Joined) ==
  IF k > Len(I.ops) THEN Joined
  ELSE JoinIncoming(I, In, k + 1, Join(Joined, getOrExtract(In, I.ops[k])))

\* eval(PHINode*, const Memory*)
evalPhi(I, In) ==
  IF hasConstantValue(I) # "" THEN extractFromValue(hasConstantValue(I))
  ELSE JoinIncoming(I, In, 1, DomV(Uninit))

\* eval(CastInst*, const Memory*)
evalCast(I, In) == getOrExtract(In, I.ops[1])

\* eval(CmpInst*, const Memory*)
evalCmp(I, In) ==
  LET LV == getOrExtract(In, I.ops[1]).Value
      RV == getOrExtract(In, I.ops[2]).Value
      mixed == (LV = Zero /\ RV = NonZero) \/ (LV = NonZero /\ RV = Zero)
  IN CASE I.pred = "eq" ->
            IF LV = Zero /\ RV = Zero THEN DomV(NonZero)
            ELSE IF mixed THEN DomV(Zero)
            ELSE DomV(MaybeZero)
       [] I.pred = "ne" ->
            IF LV = Zero /\ RV = Zero THEN DomV(Zero)
            ELSE IF mixed THEN DomV(NonZero)
            ELSE DomV(MaybeZero)
       [] OTHER -> DomV(MaybeZero)

\* The PointerSet of doAnalysis holds the instructions; the store rule
\* visits those of pointer type, in instruction order.
PointerNames(P) ==
  [k \in 1..NInst(P) |-> IF P.ins[k].ty = "ptr" THEN P.ins[k].res ELSE ""]

RECURSIVE JoinAliases(_, _, _, _, _, _)
JoinAliases(P, pt, In, ptrName, k, joined) ==
  IF k > NInst(P) THEN joined
  ELSE LET vName == PointerNames(P)[k]
       IN JoinAliases(P, pt, In, ptrName, k + 1,
                      IF vName # "" /\ alias(pt, ptrName, vName)
                      THEN Join(joined, getOrExtract(In, vName))
                      ELSE joined)

\* The store rule of DoubleFreeAnalysis::transfer.
transferStore(P, I, In, pt) ==
  LET Val == I.ops[1]
      ptrName == I.ops[2]
  IN IF TypeOf(P, Val) # "int" THEN EmptyMem
     ELSE LET stored == getOrExtract(In, Val)
              j0 == Join(DomV(stored.Value), getOrExtract(In, ptrName))
              joined == JoinAliases(P, pt, In, ptrName, 1, j0)
              aliased == {v \in Range(PointerNames(P)) \ {""} :
                            alias(pt, ptrName, v)}
          IN [k \in {ptrName} \cup aliased |-> DomV(joined.Value)]

\* The load rule of DoubleFreeAnalysis::transfer.
transferLoad(I, In) ==
  IF I.res \in DOMAIN In THEN [k \in {I.res} |-> DomV(In[I.res].Value)]
  ELSE [k \in {I.res} |-> getOrExtract(In, I.ops[1])]

\* A call rule that does not test the type of the call.
transferCallAnyType(I, In) == [k \in {I.res} |-> DomV(MaybeZero)]

\* The call rule of DoubleFreeAnalysis::transfer.
transferCall(I, In) ==
  IF I.ty = "int" THEN [k \in {I.res} |-> DomV(MaybeZero)] ELSE EmptyMem

\* The final else of DoubleFreeAnalysis::transfer: an instruction none of
\* its dyn_casts takes (a getelementptr, among the modelled opcodes).
isUnhandled(I) ==
  /\ ~isInput(I)
  /\ I.op \notin {"phi", "cast", "cmp", "alloca", "store", "load", "br", "call", "ret"}

\* DoubleFreeAnalysis::transfer: the entries it puts into NOut.  (The
\* BinaryOperator rule calls Domain::add, sub, mul and div, which Domain
\* does not have; the functions analysed here hold no BinaryOperator.)
transfer(P, I, In, pt) ==
  IF isInput(I) THEN [k \in {I.res} |-> DomV(MaybeZero)]
  ELSE CASE I.op = "phi" -> [k \in {I.res} |-> evalPhi(I, In)]
         [] I.op = "cast" -> [k \in {I.res} |-> evalCast(I, In)]
         [] I.op = "cmp" -> [k \in {I.res} |-> evalCmp(I, In)]
         [] I.op = "alloca" -> EmptyMem
         [] I.op = "store" -> transferStore(P, I, In, pt)
         [] I.op = "load" -> transferLoad(I, In)
         [] I.op = "br" -> EmptyMem
         [] I.op = "call" -> transferCall(I, In)
         [] I.op = "ret" -> EmptyMem
         [] OTHER -> EmptyMem

\* A flowOut that keeps the entries of Post only.
OutNewPostOnly(Pre, Post) == [k \in DOMAIN Post |-> DomV(Post[k].Value)]

\* flowOut: the new out-memory, Pre overlaid with Post.
OutNew(Pre, Post) ==
  [k \in DOMAIN Pre \cup DOMAIN Post |->
     IF k \in DOMAIN Post THEN DomV(Post[k].Value) ELSE DomV(Pre[k].Value)]

\* A flowOut that takes every visit for a change.
changedAlways(OutOld, New) == TRUE

\* flowOut: bool changed = !equal(OutOld, OutNew)
changed(OutOld, New) == ~MemEqual(OutOld, New)

\* SetVector::insert of a sequence of instructions
RECURSIVE InsertAll(_, _, _)
InsertAll(ws, xs, k) ==
  IF k > Len(xs) THEN ws
  ELSE InsertAll(IF xs[k] \in Range(ws) THEN ws ELSE Append(ws, xs[k]), xs, k + 1)

\* A pop that leaves the popped instruction in the work set.
RemoveAtKeeps(ws, k) == ws

\* The sequence ws without its k-th element.
RemoveAt(ws, k) == [j \in 1..(Len(ws) - 1) |-> IF j < k THEN ws[j] ELSE ws[j + 1]]

\* A transfer that prints an unhandled opcode once only.
PrintUnhandledOnce(printed, P, i) ==
  IF isUnhandled(P.ins[i]) /\ \A j \in Range(printed) : P.ins[j].op # P.ins[i].op
  THEN Append(printed, i) ELSE printed

\* errs() << "Unhandled instruction: " << *Inst in the final else of
\* transfer, which runs at every visit of the instruction.
PrintUnhandled(printed, P, i) ==
  IF isUnhandled(P.ins[i]) THEN Append(printed, i) ELSE printed

\* One iteration of the while loop of doAnalysis on the instruction at
\* position k of the work set: flowIn, the seeding of the arguments,
\* transfer and flowOut.
Visit(P, pt, st, k) ==
  LET i == st.ws[k]
      rest == RemoveAt(st.ws, k)
      In == SeedArgs(P, i, flowIn(P, st.out, i))
      NOut == transfer(P, P.ins[i], In, pt)
      New == OutNew(In, NOut)
      ch == changed(st.out[i], New)
  IN [in |-> [st.in EXCEPT ![i] = In],
      out |-> IF ch THEN [st.out EXCEPT ![i] = New] ELSE st.out,
      ws |-> IF ch THEN InsertAll(rest, getSuccessors(P, i), 1) ELSE rest,
      ins |-> IF ch THEN Len(getSuccessors(P, i)) ELSE 0,
      inst |-> i,
      ch |-> ch]

\* The largest number of loop iterations followed.
MaxPops == 60

\* DoubleFreeAnalysis::run up to the loop of doAnalysis: the maps are
\* empty, every instruction is in the work set.
InitDF ==
  /\ InMap = [i \in Insts(F) |-> EmptyMem]
  /\ OutMap = [i \in Insts(F) |-> EmptyMem]
  /\ WorkSet = [i \in Insts(F) |-> i]
  /\ pops = 0
  /\ inserts = 0
  /\ lastInst = 0
  /\ lastChanged = FALSE
  /\ Unhandled = <<>>

\* The PointerAnalysis object built before doAnalysis runs.
InitPA ==
  /\ paImpl \in PAImpls
  /\ PointsTo = PAResult[paImpl, prog].pt
  /\ NullStates = PAResult[paImpl, prog].ns
  /\ NullChanged = PAResult[paImpl, prog].nc
  /\ NumOfOldFacts = countFacts(PointsTo)
  /\ ptIdx = NInst(F) + 1
  /\ ptPhase = "done"
  /\ ptPasses = 0
  /\ NullDerefs = LoopWarnings(paImpl, F,
                               PTState(PTSeed(F), [v \in Keys |-> Unknown], FALSE),
                               0, {})

VisitAt(k) ==
  /\ pops < MaxPops
  /\ LET st == Visit(F, PointsTo, [in |-> InMap, out |-> OutMap, ws |-> WorkSet], k)
     IN /\ InMap' = st.in
        /\ OutMap' = st.out
        /\ WorkSet' = st.ws
        /\ lastInst' = st.inst
        /\ lastChanged' = st.ch
        /\ inserts' = inserts + st.ins
  /\ Unhandled' = PrintUnhandled(Unhandled, F, WorkSet[k])
  /\ pops' = pops + 1

\* while (!WorkSet.empty()) { Inst = WorkSet.pop_back_val(); ... }
Pop ==
  /\ WorkSet # <<>>
  /\ VisitAt(Len(WorkSet))

\* The loop with any member of the work set taken next.
PopAny ==
  /\ WorkSet # <<>>
  /\ \E k \in 1..Len(WorkSet) : VisitAt(k)

\* PASS_NAME of the two dataflow passes
DoubleFreePass == "DoubleFree"
UseAfterFreePass == "UseAfterFree"

\* run before the checking loop: ErrorInsts.clear()
InitRun(a) ==
  /\ analysis = a
  /\ chkIdx = 1
  /\ ErrorInsts = <<>>
  /\ Output = <<>>

\* A test that takes a Live pointer for a freed one too.
IsFreedOrLive(D) == D.Value \in {Freed, MaybeFreed, Live}

\* A test that looks for Freed only.
IsFreedOnly(D) == D.Value = Freed

\* The test both checkers make of a pointer's value in the in-memory.
IsFreed(D) == D.Value = Freed \/ D.Value = MaybeFreed

\* DoubleFreeAnalysis::check
DoubleFreeCheck(P, In, i) ==
  LET I == P.ins[i]
  IN /\ I.op = "call"
     /\ I.callee = "free"
     /\ Len(I.ops) >= 1
     /\ IsFreed(getOrExtract(In[i], I.ops[1]))

\* A check that looks at loads and stores only.
UseAfterFreeCheckNoCalls(P, In, i) ==
  LET I == P.ins[i]
  IN CASE I.op = "load" -> IsFreed(getOrExtract(In[i], I.ops[1]))
       [] I.op = "store" -> IsFreed(getOrExtract(In[i], I.ops[2]))
       [] OTHER -> FALSE

\* UseAfterFreeAnalysis::check
UseAfterFreeCheck(P, In, i) ==
  LET I == P.ins[i]
  IN CASE I.op = "load" -> IsFreed(getOrExtract(In[i], I.ops[1]))
       [] I.op = "store" -> IsFreed(getOrExtract(In[i], I.ops[2]))
       [] I.op = "call" ->
            \E k \in 1..Len(I.ops) :
              TypeOf(P, I.ops[k]) = "ptr" /\ IsFreed(getOrExtract(In[i], I.ops[k]))
       [] OTHER -> FALSE

check(a, P, In, i) ==
  IF a = UseAfterFreePass THEN UseAfterFreeCheck(P, In, i)
  ELSE DoubleFreeCheck(P, In, i)

\* An insert that puts the instruction in front.
ErrorInsertFront(E, i) == IF i \in Range(E) THEN E ELSE <<i>> \o E

\* ErrorInsts.insert(Inst)
ErrorInsert(E, i) == IF i \in Range(E) THEN E ELSE Append(E, i)

\* One iteration of run's checking loop, after doAnalysis has returned.
CheckStep ==
  /\ WorkSet = <<>>
  /\ chkIdx <= NInst(F)
  /\ ErrorInsts' = IF check(analysis, F, InMap, chkIdx)
                   THEN ErrorInsert(ErrorInsts, chkIdx) ELSE ErrorInsts
  /\ chkIdx' = chkIdx + 1
  /\ UNCHANGED <<analysis, Output>>

\* run's printing loop: for (auto Inst : ErrorInsts) outs() << *Inst
Report ==
  /\ WorkSet = <<>>
  /\ chkIdx = NInst(F) + 1
  /\ Output' = ErrorInsts
  /\ chkIdx' = chkIdx + 1
  /\ UNCHANGED <<analysis, ErrorInsts>>

\* Values of the variables a specification does not use.
IdleRun == InitRun(DoubleFreePass)
IdleJoin == jx = Bottom /\ jy = Bottom /\ jz = Bottom /\ jres = NoJoin
IdleDF ==
  /\ InMap = <<>> /\ OutMap = <<>> /\ WorkSet = <<>>
  /\ pops = 0 /\ inserts = 0 /\ lastInst = 0 /\ lastChanged = FALSE
  /\ Unhandled = <<>>
IdlePT ==
  /\ paImpl = NullImpl /\ PointsTo = <<>> /\ NullStates = <<>>
  /\ NullChanged = FALSE /\ NumOfOldFacts = 0 /\ ptIdx = 0
  /\ ptPhase = "idle" /\ ptPasses = 0 /\ NullDerefs = {}

InitJoin == InitJoinInputs /\ prog = 1 /\ IdlePT /\ IdleDF /\ IdleRun
NextJoin == ApplyJoin /\ UNCHANGED <<prog, ptVars, dfVars, runVars>>
SpecJoin == InitJoin /\ [][NextJoin]_vars

InitPointsTo ==
  /\ prog \in 1..Len(Programs)
  /\ \E impl \in PAImpls : InitPT(impl, F)
  /\ IdleJoin /\ IdleDF /\ IdleRun
NextPointsTo ==
  /\ (PTStep \/ PTNextPass \/ PTFinish)
  /\ UNCHANGED <<prog, joinVars, dfVars, runVars>>
SpecPointsTo == InitPointsTo /\ [][NextPointsTo]_vars

\* A step of the constructor, told by its iterator and its phase: the
\* iterator moves on, starts the next pass, or the loop breaks.  Under
\* SpecPointsTo the steps that satisfy it are the steps of NextPointsTo, and
\* it is enabled exactly when NextPointsTo is.
ConstructorStep ==
  /\ ptPhase = "pass"
  /\ \/ ptIdx' = ptIdx + 1 /\ ptPhase' = ptPhase
     \/ ptIdx' = 1 /\ ptPhase' = ptPhase
     \/ ptIdx' = ptIdx /\ ptPhase' = "done"

\* The constructor runs on until it returns.
SpecPointsToFair == SpecPointsTo /\ WF_<<ptIdx, ptPhase>>(ConstructorStep)

Init ==
  /\ prog \in 1..Len(Programs)
  /\ InitPA
  /\ InitDF
  /\ IdleJoin
  /\ InitRun(DoubleFreePass)
Next == Pop /\ UNCHANGED <<prog, joinVars, ptVars, runVars>>
Spec == Init /\ [][Next]_vars

\* An iteration of the loop of doAnalysis, told by the loop condition and the
\* count of iterations: under Spec the steps that satisfy it are the steps of
\* Next, and it is enabled exactly when Next is.
Iteration == WorkSet # <<>> /\ pops < MaxPops /\ pops' = pops + 1

\* The loop of doAnalysis runs on while the work set is not empty.
SpecFair == Spec /\ WF_pops(Iteration)

\* The largest function followed through every pop order.
MaxAnyOrderInsts == 10

InitAny == Init /\ NInst(F) <= MaxAnyOrderInsts
NextAny == PopAny /\ UNCHANGED <<prog, joinVars, ptVars, runVars>>
SpecAny == InitAny /\ [][NextAny]_vars

-----------------------------------------------------------------------------
(* Properties of Domain::join, checked under SpecJoin.                      *)

\* C1: join is commutative: join(a, b) = join(b, a) in both components, for
\* every pair of abstract values.
JoinCommutative == jres.done => jres.xy = jres.yx

\* C2: join is associative: join(join(a, b), c) = join(a, join(b, c)) in
\* both components, for every triple of abstract values.
JoinAssociative == jres.done => jres.xy_z = jres.x_yz

\* A triple whose three freshness values differ and whose nullness values
\* are all informative has been joined both ways.
JoinAssociativeWitness ==
  /\ jres.done
  /\ jx = Dom(Live, Null) /\ jy = Dom(Freed, NotNull) /\ jz = Dom(Uninit, MaybeNull)
  /\ jres.xy_z = Dom(MaybeFreed, MaybeNull)

\* C3: bottom is an identity of join: join(x, (Uninit, Unknown)) = x for
\* every abstract value x, also when x is (Uninit, n) with n not Unknown.
JoinBottomIdentity == jres.done => jres.xbot = jx

\* The tables of the freshness join and of the nullness join.
JoinFTable(f1, f2) ==
  IF f1 = Uninit THEN f2
  ELSE IF f2 = Uninit THEN f1
  ELSE IF f1 = f2 THEN f1
  ELSE MaybeFreed

JoinNTable(n1, n2) ==
  IF n1 = Unknown THEN n2
  ELSE IF n2 = Unknown THEN n1
  ELSE IF n1 = n2 THEN n1
  ELSE MaybeNull

\* C4: join is component-wise: the freshness of join((f1,n1),(f2,n2)) is
\* join_f(f1,f2) and its nullness is join_n(n1,n2).
JoinComponentWise ==
  jres.done =>
    jres.xy = Dom(JoinFTable(jx.Value, jy.Value), JoinNTable(jx.Nstate, jy.Nstate))

-----------------------------------------------------------------------------
(* Properties of the points-to analysis, checked under SpecPointsTo.        *)

\* C6: applying the transfer rule of any instruction leaves every
\* points-to set a superset of what it was, also for the rules that assign
\* the result's set (load, cast, pointer offset, phi).
PointsToGrows ==
  [][\A k \in Keys : PointsTo[k] \subseteq PointsTo'[k]]_vars

\* In a pass after the first, a load, cast, offset or phi has just assigned
\* a non-empty set to its result.
PointsToGrowsWitness ==
  /\ ptPhase = "pass" /\ ptPasses >= 1 /\ ptIdx > 1
  /\ F.ins[ptIdx - 1].op \in {"load", "cast", "gep", "phi"}
  /\ F.ins[ptIdx - 1].ty = "ptr"
  /\ PointsTo[F.ins[ptIdx - 1].res] # {}

-----------------------------------------------------------------------------
(* Properties of the worklist loop of doAnalysis.                           *)

\* The order of the product lattice.
LeqF(f1, f2) == f1 = f2 \/ f1 = Uninit \/ f2 = MaybeFreed
LeqN(n1, n2) == n1 = n2 \/ n1 = Unknown \/ n2 = MaybeNull
Leq(d1, d2) == LeqF(d1.Value, d2.Value) /\ LeqN(d1.Nstate, d2.Nstate)

MemLeq(M1, M2) ==
  \A v \in DOMAIN M1 \cup DOMAIN M2 : Leq(getOrExtract(M1, v), getOrExtract(M2, v))

\* C5: no step of the worklist loop lowers an entry of in_map or of
\* out_map: every new value is above or equal to the previous one.
MapsMonotone ==
  [][\A i \in Insts(F) : MemLeq(InMap[i], InMap'[i]) /\ MemLeq(OutMap[i], OutMap'[i])]_vars

\* C7: the worklist loop terminates: from the state in which every
\* instruction is in the worklist, the worklist eventually becomes empty.
WorklistDrains == <>(WorkSet = <<>>)

\* The instructions that begin a block some later block branches back to.
LoopHeads(P) ==
  {i \in Insts(P) : \E j \in Insts(P) : j >= i /\ IsLastInBlock(P, j)
                                        /\ i \in Range(getSuccessors(P, j))}

\* The loop has ended on a function with a CFG loop and a phi node after
\* visiting some instruction more than once.
WorklistDrainsWitness ==
  /\ WorkSet = <<>> /\ pops > NInst(F)
  /\ LoopHeads(F) # {}
  /\ \E i \in Insts(F) : F.ins[i].op = "phi"

RECURSIVE doAnalysis(_, _, _, _)
doAnalysis(P, pt, st, n) ==
  IF st.ws = <<>> \/ n = 0 THEN st
  ELSE doAnalysis(P, pt, Visit(P, pt, st, Len(st.ws)), n - 1)

\* The maps doAnalysis ends with on a function.
Fixpoint(P, pt) ==
  doAnalysis(P, pt,
             [in |-> [i \in Insts(P) |-> EmptyMem],
              out |-> [i \in Insts(P) |-> EmptyMem],
              ws |-> [i \in Insts(P) |-> i]],
             MaxPops)

\* C9: the fixpoint does not depend on the pop order: a run that pops any
\* member of the worklist at each step ends with the in_map and out_map
\* that the run popping the last member ends with, for every instruction
\* (a missing entry and an Uninit entry read alike, as equal reads them).
PopOrderIndependent ==
  WorkSet = <<>> =>
    LET fp == Fixpoint(F, PointsTo)
    IN /\ fp.ws = <<>>
       /\ \A i \in Insts(F) :
            MemEqual(InMap[i], fp.in[i]) /\ MemEqual(OutMap[i], fp.out[i])

\* C10: in the out-state of a call free(p), every pointer-typed name q
\* with alias(p, q) has freshness Freed or MaybeFreed.
FreeMarksAliases ==
  (lastInst # 0 /\ F.ins[lastInst].op = "call" /\ F.ins[lastInst].callee = "free") =>
    \A q \in NamesOf(F) :
      (TypeOf(F, q) = "ptr" /\ alias(PointsTo, F.ins[lastInst].ops[1], q)) =>
        getOrExtract(OutMap[lastInst], q).Value \in {Freed, MaybeFreed}

-----------------------------------------------------------------------------
(* Properties of the transfer rules and of the checkers.                    *)

\* The allocator and deallocator names.
Allocators == {"malloc", "calloc", "realloc"}
Deallocators == {"free"}

\* C11: the out-state recorded for a call to an allocator with a
\* pointer-typed result r maps r to (Live, NotNull).
AllocResultLive ==
  (/\ lastInst # 0
   /\ F.ins[lastInst].op = "call"
   /\ F.ins[lastInst].callee \in Allocators
   /\ F.ins[lastInst].ty = "ptr") =>
    getOrExtract(OutMap[lastInst], F.ins[lastInst].res) = Dom(Live, NotNull)

-----------------------------------------------------------------------------
(* The dataflow engine of the use-after-free pass.  UseAfterFreeAnalysis.cpp *)
(* holds the pass's check and run; its doAnalysis, flowIn, transfer and     *)
(* flowOut follow the engine and the transfer function as sections 4.4 and  *)
(* 4.5 describe them.  The guard refinement of flowIn changes the nullness  *)
(* only, which no rule below and no checker of this pass reads into a       *)
(* freshness; it is left out.                                               *)

\* The join of two abstract values, component by component.
joinValues(d1, d2) ==
  Dom(JoinFTable(d1.Value, d2.Value), JoinNTable(d1.Nstate, d2.Nstate))

\* The join of two abstract memories; a missing key is (Uninit, Unknown).
joinMemories(M1, M2) ==
  [k \in DOMAIN M1 \cup DOMAIN M2 |->
     joinValues(getOrExtract(M1, k), getOrExtract(M2, k))]

RECURSIVE joinPredecessors(_, _, _, _)
joinPredecessors(out, preds, k, InMem) ==
  IF k > Len(preds) THEN InMem
  ELSE joinPredecessors(out, preds, k + 1, joinMemories(InMem, out[preds[k]]))

\* flowIn(I): the join of the out-memories of the predecessors; an entry
\* instruction is seeded with the pointer arguments as Live.
uafFlowIn(P, out, i) ==
  LET In == joinPredecessors(out, getPredecessors(P, i), 1, EmptyMem)
      as == {P.args[k].n : k \in {j \in 1..Len(P.args) : P.args[j].ty = "ptr"}}
  IN IF getPredecessors(P, i) # <<>> THEN In
     ELSE [k \in DOMAIN In \cup as |-> IF k \in as THEN Dom(Live, Unknown) ELSE In[k]]

\* The pointer-typed SSA names of a function.
PointerSetOf(P) == {v \in NamesOf(P) : TypeOf(P, v) = "ptr"}

\* The base of a deallocation's argument (section 9): cast and offset
\* chains are stripped; if the base is a load, the slot loaded from.
RECURSIVE baseOf(_, _)
baseOf(P, v) ==
  IF \E i \in Insts(P) : P.ins[i].res = v /\ P.ins[i].op \in {"cast", "gep", "load"}
  THEN LET I == P.ins[CHOOSE i \in Insts(P) : P.ins[i].res = v]
       IN IF I.op = "load" THEN I.ops[1] ELSE baseOf(P, I.ops[1])
  ELSE v

\* The deallocation rule.
uafTransferFree(P, I, In, pt) ==
  LET p == baseOf(P, I.ops[1])
      prev == getOrExtract(In, p)
      newF == IF prev.Value = MaybeFreed THEN MaybeFreed ELSE Freed
      qs == {q \in PointerSetOf(P) \ {p} : alias(pt, p, q)}
  IN [k \in {p} \cup qs |->
        IF k = p THEN Dom(newF, prev.Nstate)
        ELSE Dom(Freed, getOrExtract(In, k).Nstate)]

RECURSIVE joinIncomingValues(_, _, _, _)
joinIncomingValues(I, In, k, Joined) ==
  IF k > Len(I.ops) THEN Joined
  ELSE joinIncomingValues(I, In, k + 1,
                          joinValues(Joined, getOrExtract(In, I.ops[k])))

\* The store rule for a pointer-typed value.
uafTransferStore(P, I, In) ==
  LET V == I.ops[1]
      Slot == I.ops[2]
      cur == getOrExtract(In, Slot)
  IN IF TypeOf(P, V) # "ptr" THEN EmptyMem
     ELSE IF V = "cnull"
          THEN [k \in {Slot} |-> Dom(cur.Value, JoinNTable(cur.Nstate, Null))]
          ELSE [k \in {Slot} |-> joinValues(cur, getOrExtract(In, V))]

\* The transfer function of section 4.5: the entries written over the copy
\* of the in-memory.
uafTransfer(P, I, In, pt) ==
  CASE I.op = "call" /\ I.callee \in Allocators ->
         IF I.ty = "ptr" THEN [k \in {I.res} |-> Dom(Live, NotNull)] ELSE EmptyMem
    [] I.op = "call" /\ I.callee \in Deallocators /\ Len(I.ops) >= 1 ->
         uafTransferFree(P, I, In, pt)
    [] I.op = "call" /\ I.callee \notin Allocators \cup Deallocators ->
         IF I.ty = "ptr" THEN [k \in {I.res} |-> Dom(MaybeFreed, Unknown)]
         ELSE EmptyMem
    [] I.op = "phi" /\ I.ty = "ptr" ->
         [k \in {I.res} |-> joinIncomingValues(I, In, 1, Bottom)]
    [] I.op \in {"cast", "gep"} /\ I.ty = "ptr" ->
         [k \in {I.res} |-> getOrExtract(In, I.ops[1])]
    [] I.op = "load" /\ I.ty = "ptr" ->
         [k \in {I.res} |-> getOrExtract(In, I.ops[1])]
    [] I.op = "store" -> uafTransferStore(P, I, In)
    [] OTHER -> EmptyMem

\* The out-memory: the copy of the in-memory with the written entries.
uafOut(In, NOut) ==
  [k \in DOMAIN In \cup DOMAIN NOut |-> IF k \in DOMAIN NOut THEN NOut[k] ELSE In[k]]

\* out # out_map[I], a missing key being (Uninit, Unknown)
uafChanged(OutOld, New) ==
  \E k \in DOMAIN OutOld \cup DOMAIN New :
    getOrExtract(OutOld, k) # getOrExtract(New, k)

\* One iteration of the loop of section 4.4 on the last member of the
\* worklist.
uafVisit(P, pt, st) ==
  LET k == Len(st.ws)
      i == st.ws[k]
      rest == RemoveAt(st.ws, k)
      In == uafFlowIn(P, st.out, i)
      New == uafOut(In, uafTransfer(P, P.ins[i], In, pt))
      ch == uafChanged(st.out[i], New)
  IN [in |-> [st.in EXCEPT ![i] = In],
      out |-> IF ch THEN [st.out EXCEPT ![i] = New] ELSE st.out,
      ws |-> IF ch THEN InsertAll(rest, getSuccessors(P, i), 1) ELSE rest,
      ins |-> IF ch THEN Len(getSuccessors(P, i)) ELSE 0,
      inst |-> i,
      ch |-> ch]

PopUaf ==
  /\ WorkSet # <<>>
  /\ pops < MaxPops
  /\ LET st == uafVisit(F, PointsTo, [in |-> InMap, out |-> OutMap, ws |-> WorkSet])
     IN /\ InMap' = st.in
        /\ OutMap' = st.out
        /\ WorkSet' = st.ws
        /\ lastInst' = st.inst
        /\ lastChanged' = st.ch
        /\ inserts' = inserts + st.ins
  /\ Unhandled' = PrintUnhandledOnce(Unhandled, F, WorkSet[Len(WorkSet)])
  /\ pops' = pops + 1

\* run of either pass on one function: doAnalysis, the checking loop and
\* the printing loop.
InitBoth ==
  /\ prog \in 1..Len(Programs)
  /\ InitPA
  /\ InitDF
  /\ IdleJoin
  /\ \E a \in {DoubleFreePass, UseAfterFreePass} : InitRun(a)

PopOf == IF analysis = UseAfterFreePass THEN PopUaf ELSE Pop

NextRun ==
  \/ PopOf /\ UNCHANGED <<prog, joinVars, ptVars, runVars>>
  \/ CheckStep /\ UNCHANGED <<prog, joinVars, ptVars, dfVars>>
  \/ Report /\ UNCHANGED <<prog, joinVars, ptVars, dfVars>>
SpecRun == InitBoth /\ [][NextRun]_vars

\* run has printed its findings.
Reported == chkIdx = NInst(F) + 2

-----------------------------------------------------------------------------
(* Properties of the checkers and the end-to-end scenarios.                 *)

InOrder(sq) == \A a, b \in 1..Len(sq) : a < b => sq[a] < sq[b]

DoubleFreeSecondFlagged ==
  (analysis = DoubleFreePass /\ F = ProgDoubleFree /\ Reported) =>
    (3 \in Range(Output) /\ 2 \notin Range(Output))

\* C14: in test07 the double-free checker flags the second free(p).
BranchFreeSecondFlagged ==
  (analysis = DoubleFreePass /\ F = ProgBranchFree /\ Reported) =>
    12 \in Range(Output)

\* C15: in r = malloc(..); free(r); foo(r) the use-after-free checker
\* flags the call to foo.
UafCallFlagged ==
  /\ (analysis = UseAfterFreePass /\ F = ProgUafCall /\ Reported) =>
       3 \in Range(Output)
  /\ (analysis = UseAfterFreePass /\ F = ProgUafCallSlot /\ Reported) =>
       7 \in Range(Output)

\* The use-after-free pass has printed its findings for test04.
UafCallFlaggedWitness ==
  /\ analysis = UseAfterFreePass /\ F = ProgUafCall /\ Reported
  /\ getOrExtract(InMap[3], "r").Value = Freed

\* C16: in p = malloc(..); free(p); p = NULL neither the double-free
\* checker nor the use-after-free checker flags an instruction, the store
\* of the null constant included.
FreeNullifyClean ==
  (F = ProgFreeNullify /\ Reported) => Output = <<>>

\* C17: in *slot = NULL; x = *slot; *x = 1 the null-dereference check
\* flags the write through x.
NullStoreFlagged ==
  (F = ProgNullStore /\ ptPhase = "done") => 4 \in NullDerefs

\* The constructor has finished on the function with x known to be Null.
NullStoreFlaggedWitness ==
  /\ F = ProgNullStore /\ ptPhase = "done"
  /\ paImpl = NullImpl /\ NullStates["x"] = Null

\* C18: in p = malloc(..); if (p) { *p = 5; } free(p) the null-dereference
\* check flags no instruction and the double-free checker flags none.
GuardedClean ==
  (analysis = DoubleFreePass /\ F = ProgGuarded /\ Reported) =>
    (NullDerefs = {} /\ Output = <<>>)

\* The double-free pass has printed its findings for the guarded store,
\* p being NotNull.
GuardedCleanWitness ==
  /\ analysis = DoubleFreePass /\ F = ProgGuarded /\ Reported
  /\ paImpl = NullImpl /\ NullStates["r"] = NotNull

\* C19: in r = malloc(..); free(r); return no checker flags an
\* instruction: not the double-free checker, not the use-after-free
\* checker, not the null-dereference check.
CleanFreeNoWarnings ==
  (F = ProgCleanFree /\ Reported) => (Output = <<>> /\ NullDerefs = {})

\* Either pass has printed its findings for the clean function.
CleanFreeNoWarningsWitness ==
  /\ F = ProgCleanFree /\ Reported
  /\ analysis = UseAfterFreePass
  /\ getOrExtract(InMap[2], "r").Value = Live

\* C20: the double-free checker flags exactly the calls of free whose
\* argument is Freed or MaybeFreed in the call's in-memory.
DoubleFreeFlagsExactly ==
  (analysis = DoubleFreePass /\ Reported) =>
    \A i \in Insts(F) :
      i \in Range(ErrorInsts) <=>
        /\ F.ins[i].op = "call"
        /\ F.ins[i].callee \in Deallocators
        /\ Len(F.ins[i].ops) >= 1
        /\ getOrExtract(InMap[i], F.ins[i].ops[1]).Value \in {Freed, MaybeFreed}

\* The double-free pass has flagged a free whose argument is MaybeFreed.
DoubleFreeFlagsExactlyWitness ==
  /\ analysis = DoubleFreePass /\ Reported
  /\ \E i \in Range(ErrorInsts) :
       getOrExtract(InMap[i], F.ins[i].ops[1]).Value = MaybeFreed

-----------------------------------------------------------------------------
(* The contract of the use-after-free checker.                              *)

\* The instructions the use-after-free checker is to flag: a load or a
\* store through a Freed or MaybeFreed pointer, or a call other than free
\* that passes a Freed or MaybeFreed pointer argument.
UafFlagRule(P, In, i) ==
  LET I == P.ins[i]
      freed(v) == getOrExtract(In[i], v).Value \in {Freed, MaybeFreed}
  IN \/ I.op = "load" /\ freed(I.ops[1])
     \/ I.op = "store" /\ freed(I.ops[2])
     \/ /\ I.op = "call"
        /\ I.callee \notin Deallocators
        /\ \E k \in 1..Len(I.ops) : TypeOf(P, I.ops[k]) = "ptr" /\ freed(I.ops[k])

\* C21: the use-after-free checker flags an instruction iff it loads or
\* stores through a Freed or MaybeFreed pointer or is a call other than
\* free with a Freed or MaybeFreed pointer argument; a call of free is
\* never flagged.
UafFlagsAsSpecified ==
  (analysis = UseAfterFreePass /\ Reported) =>
    Range(Output) = {i \in Insts(F) : UafFlagRule(F, InMap, i)}

-----------------------------------------------------------------------------
(* The null-guard extractor (section 4.2): PointerAnalysis.h declares       *)
(* GuardedNotNull, analyzeNullGuards and isGuardedNotNull.                  *)

\* The blocks that have b among their successors.
PredBlocks(P, b) == {a \in 1..Len(P.bsucc) : b \in Range(P.bsucc[a])}

\* The names the edge from block a to block b guards: a ends in a branch on
\* an equality or inequality of a pointer name with null, and b is the
\* target of the non-null outcome (and not of the other outcome as well).
GuardedOnEdge(P, a, b) ==
  LET br == P.ins[LastOf(P, a)]
  IN IF br.op # "br" \/ Len(br.ops) # 1 \/ Len(P.bsucc[a]) # 2 THEN {}
     ELSE LET cs == {i \in Insts(P) : P.ins[i].res = br.ops[1] /\ P.ins[i].op = "cmp"}
              nonNull(i) == IF P.ins[i].pred = "ne" THEN P.bsucc[a][1]
                            ELSE P.bsucc[a][2]
              other(i) == IF P.ins[i].pred = "ne" THEN P.bsucc[a][2]
                          ELSE P.bsucc[a][1]
          IN {v \in NamesOf(P) :
                \E i \in cs :
                  /\ P.ins[i].pred \in {"eq", "ne"}
                  /\ P.ins[i].ops \in {<<v, "cnull">>, <<"cnull", v>>}
                  /\ TypeOf(P, v) = "ptr"
                  /\ nonNull(i) = b /\ other(i) # b}

\* GuardedNotNull[BB]: the names every predecessor edge of the block guards.
GuardedNotNull(P, b) ==
  IF PredBlocks(P, b) = {} THEN {}
  ELSE {v \in NamesOf(P) : \A a \in PredBlocks(P, b) : v \in GuardedOnEdge(P, a, b)}

\* isGuardedNotNull(ptrVar, Inst)
isGuardedNotNull(P, ptrVar, i) == ptrVar \in GuardedNotNull(P, P.blk[i])

\* The nullness of a pointer after the guard refinement of a block.
RefinedNull(P, ns, ptrVar, i) ==
  IF isGuardedNotNull(P, ptrVar, i) /\ ns[ptrVar] \in {MaybeNull, Unknown}
  THEN NotNull ELSE ns[ptrVar]

\* The pointer a load, a store or a pointer offset goes through.
DerefPointer(I) == IF I.op = "store" THEN I.ops[2] ELSE I.ops[1]

\* C22: the null-dereference check flags a load, store or pointer offset
\* through P iff the nullness of P after the guard refinement of the
\* instruction's block is Null or MaybeNull; a dereference in a block that
\* guards P is not flagged when P is MaybeNull or Unknown.
NullDerefAfterGuards ==
  (paImpl = NullImpl /\ ptPhase = "done") =>
    \A i \in Insts(F) :
      i \in NullDerefs <=>
        /\ F.ins[i].op \in {"load", "store", "gep"}
        /\ DerefPointer(F.ins[i]) \in DOMAIN NullStates
        /\ RefinedNull(F, NullStates, DerefPointer(F.ins[i]), i) \in {Null, MaybeNull}

-----------------------------------------------------------------------------
(* The alias query.                                                         *)

\* C23: alias(a, b) is true iff the final points-to sets of a and b share
\* an abstract address; it is false when one of the names has no entry or
\* the sets are disjoint, and it is symmetric.
AliasIffIntersect ==
  ptPhase = "done" =>
    \A a, b \in NamesOf(F) \cup {"cnull"} :
      /\ alias(PointsTo, a, b) <=>
           \E t \in Keys : t \in PTGet(PointsTo, a) /\ t \in PTGet(PointsTo, b)
      /\ (PTGet(PointsTo, a) = {} \/ PTGet(PointsTo, b) = {}) => ~alias(PointsTo, a, b)
      /\ alias(PointsTo, a, b) = alias(PointsTo, b, a)

\* The constructor has finished with two different names that alias and
\* two names whose sets are not empty and disjoint.
AliasIffIntersectWitness ==
  /\ ptPhase = "done"
  /\ \E a, b \in NamesOf(F) : a # b /\ alias(PointsTo, a, b)
  /\ \E a, b \in NamesOf(F) :
       /\ PointsTo[a] # {} /\ PointsTo[b] # {}
       /\ PointsTo[a] \cap PointsTo[b] = {}
       /\ ~alias(PointsTo, a, b)

-----------------------------------------------------------------------------
(* The nullness derivation.                                                 *)

\* The nullness of a points-to set S.
NullnessOf(S) ==
  IF S = {NullSym} THEN Null
  ELSE IF S # {} /\ NullSym \notin S THEN NotNull
  ELSE IF NullSym \in S /\ S # {NullSym} THEN MaybeNull
  ELSE Unknown

\* C24: when the points-to analysis has finished, the nullness recorded
\* for every name is the one its final points-to set gives: Null for
\* {null}, NotNull for a non-empty set without null, MaybeNull for null
\* together with another address, Unknown for an empty or missing set.
NullnessAgrees ==
  (paImpl = NullImpl /\ ptPhase = "done") =>
    \A v \in Keys : NullStates[v] = NullnessOf(PTGet(PointsTo, v))

\* The constructor has finished after a pass in which a name's nullness
\* changed, with a MaybeNull name, a NotNull name and an Unknown name.
NullnessAgreesWitness ==
  /\ paImpl = NullImpl /\ ptPhase = "done" /\ ptPasses >= 3
  /\ \E v \in NamesOf(F) : NullStates[v] = MaybeNull
  /\ \E v \in NamesOf(F) : NullStates[v] = NotNull
  /\ \E v \in NamesOf(F) : NullStates[v] = Unknown

-----------------------------------------------------------------------------
(* The null symbol and the allocation sites.                                *)

\* The results of the function's allocator calls.
AllocResults(P) ==
  {P.ins[i].res : i \in {j \in Insts(P) : P.ins[j].op = "call"
                                          /\ P.ins[j].callee \in Allocators}}

\* C25: in every state of the points-to analysis the null symbol is not a
\* member of the points-to set of the result of an allocator call.
AllocResultNeverNull ==
  \A r \in AllocResults(F) : NullSym \notin PTGet(PointsTo, r)

\* The null constant has been stored into a slot that holds the result of
\* an allocator call as well, and has reached a loaded name.
AllocResultNeverNullWitness ==
  /\ ptPhase = "done"
  /\ \E r \in AllocResults(F) :
       /\ PointsTo[r] # {}
       /\ \E v \in NamesOf(F) : {NullSym} \cup PointsTo[r] \subseteq PointsTo[v]

-----------------------------------------------------------------------------
(* The fixpoint the worklist loop ends with.                                *)

\* The dataflow equations at instruction i: in is the join of the
\* predecessors' out-memories (with the entry seed), out is the transfer
\* function applied to in.
SolvesAt(P, pt, in, out, i) ==
  LET In == SeedArgs(P, i, flowIn(P, out, i))
  IN /\ MemEqual(in[i], In)
     /\ MemEqual(out[i], OutNew(in[i], transfer(P, P.ins[i], in[i], pt)))

Solves(P, pt, in, out) == \A i \in Insts(P) : SolvesAt(P, pt, in, out, i)

\* The maps with the entries of the names of V set to Uninit.
Lowered(maps, V) ==
  [i \in DOMAIN maps |->
     [k \in DOMAIN maps[i] |-> IF k \in V THEN DomV(Uninit) ELSE maps[i][k]]]

MapsLeq(in1, out1, in2, out2) ==
  \A i \in DOMAIN in1 : MemLeq(in1[i], in2[i]) /\ MemLeq(out1[i], out2[i])

MapsEqual(in1, out1, in2, out2) ==
  \A i \in DOMAIN in1 : MemEqual(in1[i], in2[i]) /\ MemEqual(out1[i], out2[i])

\* C26: when the worklist is empty the maps are the least fixpoint of the
\* dataflow equations: they solve the equations, and no solution is
\* strictly below them, none of the maps got by lowering names to Uninit
\* among them.
LeastFixpoint ==
  WorkSet = <<>> =>
    /\ Solves(F, PointsTo, InMap, OutMap)
    /\ \A V \in SUBSET NamesOf(F) :
         LET in1 == Lowered(InMap, V)
             out1 == Lowered(OutMap, V)
         IN (Solves(F, PointsTo, in1, out1) /\ MapsLeq(in1, out1, InMap, OutMap))
              => MapsEqual(in1, out1, InMap, OutMap)

-----------------------------------------------------------------------------
(* The exit of the points-to loop.                                          *)

\* One more application of the transfer rule of instruction i changes no
\* points-to set and no nullness entry.
StableAt(i) ==
  LET st == PTTransfer(paImpl, F, F.ins[i], PTState(PointsTo, NullStates, FALSE))
  IN st.pt = PointsTo /\ st.ns = NullStates

\* C27: the points-to loop terminates for every function, and when it has
\* exited, applying the transfer rule of any instruction once more changes
\* no points-to set and no nullness entry.
ExitsAtFixpoint ==
  /\ <>(ptPhase = "done")
  /\ [](ptPhase = "done" => \A i \in Insts(F) : StableAt(i))

\* The loop has exited after more than two passes, with a nullness entry
\* changed in an earlier pass and facts in the map.
ExitsAtFixpointWitness ==
  /\ ptPhase = "done" /\ ptPasses >= 3
  /\ countFacts(PointsTo) >= 4
  /\ \E v \in NamesOf(F) : NullStates[v] = MaybeNull

-----------------------------------------------------------------------------
(* flowIn and flowOut.                                                      *)

\* The component-wise join of the values a name has in the out-memories of
\* the predecessors, a missing key read as (Uninit, Unknown).
RECURSIVE JoinOverPreds(_, _, _, _)
JoinOverPreds(out, preds, k, v) ==
  IF k > Len(preds) THEN Bottom
  ELSE joinValues(getOrExtract(out[preds[k]], v),
                  JoinOverPreds(out, preds, k + 1, v))

\* C28: after flowIn(I), in_map[I][v] is for every name v the join, in
\* freshness and in nullness, of out_map[P][v] over the predecessors P of I,
\* a missing key read as (Uninit, Unknown); what in_map[I] held before has
\* no influence.  (doAnalysis then seeds the arguments of an entry
\* instruction, which has no predecessor.)
FlowInIsJoin ==
  [][LET i == lastInst'
         preds == getPredecessors(F, i)
     IN /\ \A v \in NamesOf(F) :
             getOrExtract(flowIn(F, OutMap, i), v) = JoinOverPreds(OutMap, preds, 1, v)
        /\ InMap'[i] = SeedArgs(F, i, flowIn(F, OutMap, i))
        /\ preds # <<>> =>
             \A v \in NamesOf(F) :
               getOrExtract(InMap'[i], v) = JoinOverPreds(OutMap, preds, 1, v)]_vars

\* An instruction with two predecessors has been visited again: a name
\* that is Live in one predecessor's out-memory and MaybeFreed in the
\* other's is MaybeFreed in its in-memory, which held something before.
FlowInIsJoinWitness ==
  /\ lastInst # 0
  /\ Len(getPredecessors(F, lastInst)) = 2
  /\ \E v \in NamesOf(F) :
       LET preds == getPredecessors(F, lastInst)
       IN /\ getOrExtract(OutMap[preds[1]], v).Value # getOrExtract(OutMap[preds[2]], v).Value
          /\ getOrExtract(OutMap[preds[1]], v).Value # Uninit
          /\ getOrExtract(OutMap[preds[2]], v).Value # Uninit
          /\ getOrExtract(InMap[lastInst], v).Value = MaybeFreed

\* The value flowIn is to leave for name v at instruction i: the join over
\* the predecessors, its nullness raised to NotNull when the block of i
\* guards v and the joined nullness is MaybeNull or Unknown.
RefinedIn(P, out, i, v) ==
  LET J == JoinOverPreds(out, getPredecessors(P, i), 1, v)
  IN IF isGuardedNotNull(P, v, i) /\ J.Nstate \in {MaybeNull, Unknown}
     THEN Dom(J.Value, NotNull) ELSE J

\* C29: after flowIn(I), a name in the guard set of I's block whose joined
\* nullness is MaybeNull or Unknown has nullness NotNull; a nullness of Null,
\* the freshness, and the names outside the guard set are as the join left
\* them.
GuardRefinesFlowIn ==
  [][LET i == lastInst'
     IN getPredecessors(F, i) # <<>> =>
          \A v \in NamesOf(F) :
            getOrExtract(InMap'[i], v) = RefinedIn(F, OutMap, i, v)]_vars

\* Two memories hold the same value for every name, a missing key read as
\* (Uninit, Unknown).
SameValues(M1, M2) ==
  \A v \in DOMAIN M1 \cup DOMAIN M2 : getOrExtract(M1, v) = getOrExtract(M2, v)

\* C30: flowOut changes state only on a real change: when the new
\* out-memory equals out_map[I], out_map and the worklist are left as they
\* are (the worklist without the instruction popped); otherwise out_map[I]
\* becomes the new out-memory, no other entry of out_map changes, and every
\* successor of I is in the worklist afterwards.
FlowOutOnChange ==
  [][LET i == lastInst'
         New == OutNew(InMap'[i], transfer(F, F.ins[i], InMap'[i], PointsTo))
         rest == RemoveAt(WorkSet, Len(WorkSet))
     IN IF SameValues(OutMap[i], New)
        THEN OutMap' = OutMap /\ WorkSet' = rest
        ELSE /\ OutMap' = [OutMap EXCEPT ![i] = New]
             /\ Range(getSuccessors(F, i)) \subseteq Range(WorkSet')
             /\ Range(WorkSet') = Range(rest) \cup Range(getSuccessors(F, i))]_vars

\* An instruction has been visited again with no change of its out-memory,
\* which holds an Uninit entry: the worklist got none of its successors.
FlowOutOnChangeWitness ==
  /\ lastInst # 0 /\ ~lastChanged /\ pops > NInst(F)
  /\ getSuccessors(F, lastInst) # <<>>
  /\ \E v \in DOMAIN InMap[lastInst] : v \notin DOMAIN OutMap[lastInst]
  /\ Range(getSuccessors(F, lastInst)) \cap Range(WorkSet) = {}

-----------------------------------------------------------------------------
(* The transfer rules, one by one.                                          *)

\* The latest iteration of the loop handled an instruction of this opcode.
Visited(o) == lastInst # 0 /\ F.ins[lastInst].op = o

\* C31: the out-state of a call free(p) maps p to Freed when p was Uninit,
\* Live or Freed in the in-state and to MaybeFreed when it was MaybeFreed,
\* with the nullness p had in the in-state.
FreeRule ==
  (Visited("call") /\ F.ins[lastInst].callee \in Deallocators) =>
    LET p == F.ins[lastInst].ops[1]
        prev == getOrExtract(InMap[lastInst], p)
        now == getOrExtract(OutMap[lastInst], p)
    IN /\ now.Value = IF prev.Value = MaybeFreed THEN MaybeFreed ELSE Freed
       /\ now.Nstate = prev.Nstate

\* C32: the out-state of a store of a pointer-typed value V other than
\* null into slot P maps P to join(in[P], in[V]) in both components; every
\* other name keeps the value of the in-state.
PointerStoreRule ==
  (/\ Visited("store")
   /\ TypeOf(F, F.ins[lastInst].ops[1]) = "ptr"
   /\ F.ins[lastInst].ops[1] # "cnull") =>
    LET V == F.ins[lastInst].ops[1]
        P == F.ins[lastInst].ops[2]
        In == InMap[lastInst]
        Out == OutMap[lastInst]
    IN /\ getOrExtract(Out, P) = joinValues(getOrExtract(In, P), getOrExtract(In, V))
       /\ \A v \in NamesOf(F) \ {P} : getOrExtract(Out, v) = getOrExtract(In, v)

\* C33: the out-state of a load of a pointer-typed value through P maps the
\* result to in[P] every time the load is handled, also when the in-state
\* already holds a value for the result.
PointerLoadRule ==
  (Visited("load") /\ F.ins[lastInst].ty = "ptr") =>
    getOrExtract(OutMap[lastInst], F.ins[lastInst].res)
      = getOrExtract(InMap[lastInst], F.ins[lastInst].ops[1])

\* C34: for an instruction without a transfer rule (branch, return, stack
\* allocation, unknown opcode) the out-state recorded in out_map equals the
\* in-state for every name.
IdentityRule ==
  (lastInst # 0 /\ (F.ins[lastInst].op \in {"br", "ret", "alloca"}
                     \/ isUnhandled(F.ins[lastInst]))) =>
    \A v \in NamesOf(F) :
      getOrExtract(OutMap[lastInst], v) = getOrExtract(InMap[lastInst], v)

\* An instruction of unknown opcode has been visited again, with a Live
\* name in its in-state.
IdentityRuleWitness ==
  /\ lastInst # 0 /\ isUnhandled(F.ins[lastInst]) /\ pops > NInst(F)
  /\ \E v \in NamesOf(F) : getOrExtract(InMap[lastInst], v).Value = Live

\* C35: the diagnostic for an instruction of unknown opcode is printed at
\* most once per unknown opcode of the function, however often the worklist
\* loop handles the instruction.
UnhandledOnce ==
  \A a, b \in 1..Len(Unhandled) :
    F.ins[Unhandled[a]].op = F.ins[Unhandled[b]].op => a = b

\* The nullness of every entry of a memory is Unknown.
NullnessUnknown(Mem) == \A k \in DOMAIN Mem : Mem[k].Nstate = Unknown

\* C36: in every state of the worklist loop every value held in in_map or
\* out_map has nullness Unknown; whatever nullness the transfer function
\* gave the result of an instruction, the out-memory flowOut builds from it
\* and the in-memory of every successor hold Unknown for it.
StoredNullnessUnknown ==
  /\ \A i \in Insts(F) : NullnessUnknown(InMap[i]) /\ NullnessUnknown(OutMap[i])
  /\ \A i \in Insts(F), v \in Element, n \in NullState :
       LET Post == [k \in {F.ins[i].res} |-> Dom(v, n)]
           New == OutNew(InMap[i], Post)
           out == [OutMap EXCEPT ![i] = New]
       IN /\ NullnessUnknown(New)
          /\ \A s \in Range(getSuccessors(F, i)) :
               NullnessUnknown(flowIn(F, out, s))

\* An instruction with two predecessors has been visited, with a Live name
\* in its in-memory and in its out-memory.
StoredNullnessUnknownWitness ==
  /\ lastInst # 0
  /\ Len(getPredecessors(F, lastInst)) > 1
  /\ \E k \in DOMAIN InMap[lastInst] : InMap[lastInst][k].Value = Live
  /\ \E k \in DOMAIN OutMap[lastInst] : OutMap[lastInst][k].Value = Live

====
